---------------------------- MODULE Spec2Model ----------------------------
(***************************************************************************)
(* Feed registry (WebSocketManager), per-coin supervisor tasks and the     *)
(* TradeCoordinator loop of the Hyperliquid Telegram bot.                  *)
(*                                                                         *)
(* A supervisor is the task spawned by start_trade_feed; it owns the       *)
(* receiving end of a capacity-1 shutdown channel whose only long-lived    *)
(* sender is the WebSocketHandle stored in active_websockets.              *)
(***************************************************************************)
EXTENDS Integers, Sequences, FiniteSets, TLC

(***************************************************************************)
(* Bounds of the model.                                                    *)
(***************************************************************************)
\* supervisors spawned in one run of the process
MaxSpawns == 2
\* trades buffered in the unbounded trade channel
MaxQueue == 1
\* events buffered in the unbounded subscription-event channel
MaxEvents == 1
\* rand::random::<f64>() is drawn from {0/RandSteps, .., (RandSteps-1)/RandSteps}
\* and the largest value below 1
RandSteps == 1

(***************************************************************************)
(* Program constants.                                                      *)
(***************************************************************************)
MAX_RETRIES == 5
BASE_DELAY == 1000
MAX_DELAY == 30000
\* config.defaults.min_trade_value_usd; the deployed value ("$50,000+")
MinTradeValueUsd == 50000

Coins == {"BTC", "ETH"}
Users == {1, 2}
SupIds == 1..MaxSpawns
NoCoin == "-"
\* the end of the subscription-event channel: what recv() finds once every
\* sender is dropped and the buffered events are taken
Eof == "EOF"

\* coin.to_uppercase() on the strings the model feeds in
ToUpper(s) ==
    CASE s = "btc" -> "BTC"
      [] s = "eth" -> "ETH"
      [] OTHER -> s

\* the argument of /subscribe and /unsubscribe as typed by a user
CoinArgs == {"btc", "ETH", " "}
BtcArgs == {"btc", " "}

\* coin_arg.trim()
Trim(s) == IF s = " " THEN "" ELSE s

\* str::parse::<f64>() on the price and size strings the model feeds in;
\* -1 stands for the ParseFloatError
ParseErr == -1
ParseF64(s) ==
    CASE s = "1" -> 1
      [] s = "2" -> 2
      [] s = "25000" -> 25000
      [] s = "60000" -> 60000
      [] OTHER -> ParseErr

\* WsTrade::notional_usd: price * size, or the parse error
notional_usd(t) ==
    IF ParseF64(t.px) = ParseErr \/ ParseF64(t.sz) = ParseErr
    THEN ParseErr
    ELSE ParseF64(t.px) * ParseF64(t.sz)

\* the (px, sz) pairs an exchange message may carry
PxSz == { <<"25000", "1">>, <<"25000", "2">>, <<"abc", "1">> }
LargeOnly == { <<"60000", "1">> }
TradesOf(c, P) == { [coin |-> c, px |-> p[1], sz |-> p[2]] : p \in P }

\* the data arrays of the exchange's messages on the feed of coin c: one trade
DataOf(c, P) == { << t >> : t \in TradesOf(c, P) }

VARIABLES
    subs,          \* user_subscriptions rows: <<telegram_user_id, coin>>
    event_q,       \* SubscriptionEvent channel (event_tx -> event_rx)
    trade_q,       \* WsTrade channel (trade_tx -> trade_rx)
    co_pc,         \* where TradeCoordinator::start is
    co_seed,       \* active_coins still to be started by the startup loop
    co_call,       \* the start_trade_feed call in progress: coin, channel id, caller
    trade_tx,      \* self.trade_tx is Some
    active_feeds,  \* keys of TradeCoordinator::active_feeds
    ws,            \* active_websockets: coin -> id of the handle's channel, 0 = no entry
    sup,           \* supervisor tasks by id
    notif,         \* chats with a spawned notification task that has not finished
    log            \* what the handler of the current event has done so far

vars == << subs, event_q, trade_q, co_pc, co_seed, co_call, trade_tx,
           active_feeds, ws, sup, notif, log >>

\* a supervisor: pc is its place in the task, chan the state of its shutdown
\* channel ("open": a sender is alive, nothing sent; "signalled": () is
\* buffered; "blocked": () is buffered and a second send waits for room;
\* "closed": empty and every sender dropped), total_delay the
\* delay it slept last, why the reason it left its loop, close_sent whether
\* it has sent a close frame on its session (ws_sender.close()), warned
\* whether a trade_sender.send of it has failed ("receiver dropped"), skipped
\* whether its current session has met a text that did not parse
NoSup == [pc |-> "none", coin |-> NoCoin, retry_count |-> 0, total_delay |-> 0,
          chan |-> "closed", why |-> "-", close_sent |-> FALSE,
          warned |-> FALSE, skipped |-> FALSE]

\* the handler's log: the event it handles, the subscribers it found, its
\* calls of start_trade_feed and stop_trade_feed, the tasks it spawned (the
\* supervisors as a count, the notifications as the list of their chats) and
\* the error it logged or returned
NoEvent == [kind |-> "-"]
NoLog == [ev |-> NoEvent, found |-> {}, starts |-> 0, stops |-> 0, spawns |-> 0,
          notified |-> << >>, err |-> "-"]
TradeEvent(t) == [kind |-> "trade", trade |-> t]
SubscribedEvent(c) == [kind |-> "subscribed", coin |-> c]
SeedEvent(c) == [kind |-> "seed", coin |-> c]
NoCall == [coin |-> NoCoin, id |-> 0, ret |-> "-"]

Min(a, b) == IF a <= b THEN a ELSE b

RECURSIVE Pow2(_)
Pow2(n) == IF n = 0 THEN 1 ELSE 2 * Pow2(n - 1)

(***************************************************************************)
(* Supervisor task (the closure spawned by start_trade_feed).              *)
(***************************************************************************)
\* Delay with the doubling written as a product
Delay_Linear(retry_count) == Min(BASE_DELAY * 2 * retry_count, MAX_DELAY)

\* std::cmp::min(BASE_DELAY * 2_u64.pow(retry_count), MAX_DELAY)
Delay(retry_count) == Min(BASE_DELAY * Pow2(retry_count), MAX_DELAY)

\* the draws of rand::random::<f64>(): k < RandSteps stands for k/RandSteps,
\* k = RandSteps for the largest f64 below 1
Draws == 0..RandSteps

\* Jitter without the factor 0.1
Jitter_Whole(delay, k) ==
    IF k = RandSteps THEN delay - 1 ELSE (delay * k) \div RandSteps

\* (delay as f64 * 0.1 * rand::random::<f64>()) as u64
Jitter(delay, k) ==
    IF k = RandSteps
    THEN ((delay + 9) \div 10) - 1
    ELSE (delay * k) \div (10 * RandSteps)

\* delay + jitter
TotalDelay(retry_count, k) ==
    Delay(retry_count) + Jitter(Delay(retry_count), k)

\* Failed giving up one failure late: `>` for `>=`
Failed_OffByOne(r, k) ==
    LET n == r.retry_count + 1 IN
    IF n > MAX_RETRIES
    THEN [r EXCEPT !.retry_count = n, !.pc = "cleanup", !.why = "exhausted",
                   !.skipped = FALSE]
    ELSE [r EXCEPT !.retry_count = n, !.pc = "sleeping",
                   !.total_delay = TotalDelay(n, k), !.skipped = FALSE]

\* the Err(e) arm: count the failure, then give up or sleep
Failed(r, k) ==
    LET n == r.retry_count + 1 IN
    IF n >= MAX_RETRIES
    THEN [r EXCEPT !.retry_count = n, !.pc = "cleanup", !.why = "exhausted",
                   !.skipped = FALSE]
    ELSE [r EXCEPT !.retry_count = n, !.pc = "sleeping",
                   !.total_delay = TotalDelay(n, k), !.skipped = FALSE]

\* the Ok(_) arm: break
Ended(r, why) == [r EXCEPT !.pc = "cleanup", !.why = why, !.skipped = FALSE]

Alive(s) == sup[s].pc \notin {"none", "exited"}

\* shutdown_rx has a message to hand out
Buffered(r) == r.chan \in {"signalled", "blocked"}

\* stop_trade_feed waits in handle.shutdown() for room in a full channel; it
\* holds the write lock of active_websockets while it waits
Parked == \E s \in SupIds : sup[s].chan = "blocked"

\* SupLoopTop without the try_recv test
SupLoopTop_NoCheck(s) ==
    /\ sup[s].pc \in {"top", "sleeping"}
    /\ sup' = [sup EXCEPT ![s].pc = "connecting"]
    /\ UNCHANGED << subs, event_q, trade_q, co_pc, co_seed, co_call, trade_tx,
                    active_feeds, ws, notif, log >>

\* top of the loop, first time or after the sleep: shutdown_rx.try_recv()
SupLoopTop(s) ==
    /\ sup[s].pc \in {"top", "sleeping"}
    /\ sup' = [sup EXCEPT ![s] =
                 IF Buffered(sup[s])
                 THEN [@ EXCEPT !.pc = "cleanup", !.chan = "closed",
                                !.why = "shutdown"]
                 ELSE [@ EXCEPT !.pc = "connecting"]]
    /\ UNCHANGED << subs, event_q, trade_q, co_pc, co_seed, co_call, trade_tx,
                    active_feeds, ws, notif, log >>

\* connect_async and the subscribe message succeed
SupConnected(s) ==
    /\ sup[s].pc = "connecting"
    /\ sup' = [sup EXCEPT ![s].pc = "reading"]
    /\ UNCHANGED << subs, event_q, trade_q, co_pc, co_seed, co_call, trade_tx,
                    active_feeds, ws, notif, log >>

\* connect_async or the subscribe message fails: websocket_connection returns Err
SupConnectFailed(s, k) ==
    /\ sup[s].pc = "connecting"
    /\ sup' = [sup EXCEPT ![s] = Failed(@, k)]
    /\ UNCHANGED << subs, event_q, trade_q, co_pc, co_seed, co_call, trade_tx,
                    active_feeds, ws, notif, log >>

\* select!: shutdown_rx.recv() is ready (a message, or every sender dropped)
SupShutdown(s) ==
    /\ sup[s].pc = "reading"
    /\ (Buffered(sup[s]) \/ sup[s].chan = "closed")
    /\ sup' = [sup EXCEPT ![s] = Ended([@ EXCEPT !.chan = "closed",
                                                 !.close_sent = TRUE],
                                       "shutdown")]
    /\ UNCHANGED << subs, event_q, trade_q, co_pc, co_seed, co_call, trade_tx,
                    active_feeds, ws, notif, log >>

\* trade_sender.send(trade) for each trade of the message; the channel is
\* open as long as the Coordinator holds trade_rx
ReceiverAlive == co_pc \in {"seed", "idle", "insert", "handled"}

\* SupText sending the trades of a message last first
SupText_Reversed(s, data) ==
    /\ sup[s].pc = "reading"
    /\ ReceiverAlive
    /\ Len(trade_q) < MaxQueue
    /\ trade_q' = trade_q \o [i \in 1..Len(data) |-> data[Len(data) + 1 - i]]
    /\ UNCHANGED << subs, event_q, co_pc, co_seed, co_call, trade_tx,
                    active_feeds, ws, sup, notif, log >>

\* select!: Some(Ok(Message::Text)) that parses as WsResponse
SupText(s, data) ==
    /\ sup[s].pc = "reading"
    /\ IF ReceiverAlive
       THEN /\ Len(trade_q) < MaxQueue
            /\ trade_q' = trade_q \o data
            /\ UNCHANGED sup
       ELSE \* send fails on the first trade: warn!, break out of the `for`
            /\ trade_q' = trade_q
            /\ sup' = [sup EXCEPT ![s].warned = TRUE]
    /\ UNCHANGED << subs, event_q, co_pc, co_seed, co_call, trade_tx,
                    active_feeds, ws, notif, log >>

\* SupSkip taking the parse error for a failure of the connection
SupSkip_Fatal(s) ==
    /\ sup[s].pc = "reading"
    /\ sup' = [sup EXCEPT ![s] = [Failed(@, 0) EXCEPT !.skipped = TRUE]]
    /\ UNCHANGED << subs, event_q, trade_q, co_pc, co_seed, co_call, trade_tx,
                    active_feeds, ws, notif, log >>

\* select!: text that does not parse (debug!), or a non-text message
SupSkip(s) ==
    /\ sup[s].pc = "reading"
    /\ sup' = [sup EXCEPT ![s].skipped = TRUE]
    /\ UNCHANGED << subs, event_q, trade_q, co_pc, co_seed, co_call, trade_tx,
                    active_feeds, ws, notif, log >>

\* select!: Some(Ok(Message::Close)) or None
SupClosed(s) ==
    /\ sup[s].pc = "reading"
    /\ sup' = [sup EXCEPT ![s] = Ended(@, "ended")]
    /\ UNCHANGED << subs, event_q, trade_q, co_pc, co_seed, co_call, trade_tx,
                    active_feeds, ws, notif, log >>

\* select!: Some(Err(e))
SupError(s, k) ==
    /\ sup[s].pc = "reading"
    /\ sup' = [sup EXCEPT ![s] = Failed(@, k)]
    /\ UNCHANGED << subs, event_q, trade_q, co_pc, co_seed, co_call, trade_tx,
                    active_feeds, ws, notif, log >>

\* HashMap::remove / insert drops the handle it displaces, and with it the
\* last sender of that handle's channel
DropHandle(sp, id) ==
    IF id # 0 /\ sp[id].chan = "open"
    THEN [sp EXCEPT ![id].chan = "closed"]
    ELSE sp

\* after the loop: active_websockets.write().await, remove(&coin_clone), then
\* the task ends
SupCleanup(s) ==
    /\ sup[s].pc = "cleanup"
    /\ ~ Parked
    /\ ws' = [ws EXCEPT ![sup[s].coin] = 0]
    /\ sup' = [DropHandle(sup, ws[sup[s].coin]) EXCEPT ![s] =
                 [pc |-> "exited", coin |-> sup[s].coin, retry_count |-> 0,
                  total_delay |-> 0, chan |-> "closed", why |-> sup[s].why,
                  close_sent |-> sup[s].close_sent, warned |-> sup[s].warned,
                  skipped |-> FALSE]]
    /\ UNCHANGED << subs, event_q, trade_q, co_pc, co_seed, co_call, trade_tx,
                    active_feeds, notif, log >>

(***************************************************************************)
(* WebSocketManager.                                                       *)
(***************************************************************************)
FreeIds == { i \in SupIds : sup[i].pc = "none" }
NewId == CHOOSE i \in FreeIds : \A k \in FreeIds : i <= k

\* start_trade_feed, first half: the contains_key check under the read lock
\* and, when it finds no entry, the channel and the spawned task
FeedExists(coin) == ws[coin] # 0

\* start_trade_feed up to tokio::spawn, as called by start_websocket_for_coin
\* from `ret`; `lg` is the handler's log so far
StartTradeFeed(coin, ret, lg) ==
    IF FeedExists(coin)
    THEN \* Err("ws alr exists"): logged by the caller
         /\ co_pc' = ret
         /\ co_call' = NoCall
         /\ log' = [lg EXCEPT !.starts = @ + 1, !.err = "start"]
         /\ UNCHANGED sup
    ELSE /\ FreeIds # {}
         /\ sup' = [sup EXCEPT ![NewId] =
                      [pc |-> "top", coin |-> coin, retry_count |-> 0,
                       total_delay |-> 0, chan |-> "open", why |-> "-",
                       close_sent |-> FALSE, warned |-> FALSE,
                       skipped |-> FALSE]]
         /\ co_pc' = "insert"
         /\ co_call' = [coin |-> coin, id |-> NewId, ret |-> ret]
         /\ log' = [lg EXCEPT !.starts = @ + 1, !.spawns = @ + 1]

\* start_websocket_for_coin: the sender must be there, then start_trade_feed
StartWebsocketForCoin(coin, ret, lg) ==
    IF trade_tx
    THEN StartTradeFeed(ToUpper(coin), ret, lg)
    ELSE /\ co_pc' = ret
         /\ co_call' = NoCall
         /\ log' = [lg EXCEPT !.err = "not up"]
         /\ UNCHANGED sup

\* start_trade_feed, second half: insert under the write lock and return Ok;
\* start_websocket_for_coin then records the coin in active_feeds
CoInsert ==
    /\ co_pc = "insert"
    /\ ws' = [ws EXCEPT ![co_call.coin] = co_call.id]
    /\ sup' = DropHandle(sup, ws[co_call.coin])
    /\ active_feeds' = active_feeds \cup {co_call.coin}
    /\ co_pc' = co_call.ret
    /\ co_call' = NoCall
    /\ UNCHANGED << subs, event_q, trade_q, co_seed, trade_tx, notif, log >>

\* Shutdown that drops the handle without sending
Shutdown_Silent(sp, id) == DropHandle(sp, id)

\* handle.shutdown(): send on the capacity-1 channel, then the sender is
\* dropped; the send fails at once without a receiver and waits while the
\* buffer is full
Shutdown(sp, id) ==
    IF sp[id].pc = "exited"
    THEN sp
    ELSE IF Buffered(sp[id])
    THEN [sp EXCEPT ![id].chan = "blocked"]
    ELSE [sp EXCEPT ![id].chan = "signalled"]

(***************************************************************************)
(* TradeCoordinator.                                                       *)
(***************************************************************************)
\* ActiveCoins cut after its first row
ActiveCoins_First ==
    LET cs == { r[2] : r \in subs } IN
    IF cs = {} THEN << >>
    ELSE IF "BTC" \in cs THEN << "BTC" >>
    ELSE << "ETH" >>

\* SELECT DISTINCT coin ... ORDER BY coin
ActiveCoins ==
    LET cs == { r[2] : r \in subs } IN
    IF cs = {} THEN << >>
    ELSE IF cs = {"BTC"} THEN << "BTC" >>
    ELSE IF cs = {"ETH"} THEN << "ETH" >>
    ELSE << "BTC", "ETH" >>

\* start(): get_active_coins fails and `?` returns the error
CoBootFailed ==
    /\ co_pc = "boot"
    /\ co_pc' = "failed"
    /\ UNCHANGED << subs, event_q, trade_q, co_seed, co_call, trade_tx,
                    active_feeds, ws, sup, notif, log >>

\* start(): get_active_coins, the trade channel, self.trade_tx = Some
CoBoot ==
    /\ co_pc = "boot"
    /\ co_seed' = ActiveCoins
    /\ trade_tx' = TRUE
    /\ co_pc' = "seed"
    /\ UNCHANGED << subs, event_q, trade_q, co_call, active_feeds, ws, sup,
                    notif, log >>

\* start(): one turn of `for coin in &active_coins`
CoSeed ==
    /\ co_pc = "seed"
    /\ co_seed # << >>
    /\ co_seed' = Tail(co_seed)
    /\ StartWebsocketForCoin(Head(co_seed), "seed",
                             [NoLog EXCEPT !.ev = SeedEvent(Head(co_seed))])
    /\ UNCHANGED << subs, event_q, trade_q, trade_tx, active_feeds, ws, notif >>

\* start(): the startup loop is over, "coordinator listening..."
CoListen ==
    /\ co_pc = "seed"
    /\ co_seed = << >>
    /\ co_pc' = "idle"
    /\ log' = NoLog
    /\ UNCHANGED << subs, event_q, trade_q, co_seed, co_call, trade_tx,
                    active_feeds, ws, sup, notif >>

\* HasFeed without the lookup in active_feeds
HasFeed_Never(coin) == FALSE

\* check_coin_subscription: the Coordinator already counts the coin as fed
HasFeed(coin) == ToUpper(coin) \in active_feeds

\* select! takes an event: handle_subscription_event -> check_coin_subscription
CoEvent ==
    /\ co_pc = "idle"
    /\ event_q # << >>
    /\ Head(event_q) # Eof
    /\ event_q' = Tail(event_q)
    /\ IF HasFeed(Head(event_q))
       THEN /\ co_pc' = "handled"
            /\ log' = [NoLog EXCEPT !.ev = SubscribedEvent(Head(event_q))]
            /\ UNCHANGED << co_call, sup >>
       ELSE StartWebsocketForCoin(ToUpper(Head(event_q)), "handled",
                [NoLog EXCEPT !.ev = SubscribedEvent(Head(event_q))])
    /\ UNCHANGED << subs, trade_q, co_seed, trade_tx, active_feeds, ws, notif >>

\* the handler has returned: next turn of the loop, back in select!
CoLoop ==
    /\ co_pc = "handled"
    /\ ~ Parked
    /\ co_pc' = "idle"
    /\ log' = NoLog
    /\ UNCHANGED << subs, event_q, trade_q, co_seed, co_call, trade_tx,
                    active_feeds, ws, sup, notif >>

\* get_subscribers_for_coin: the users with a row for the coin
Subscribers(coin) == { u \in Users : << u, ToUpper(coin) >> \in subs }

\* BelowThreshold with `<=` for `<`
BelowThreshold_Le(n) == n <= MinTradeValueUsd

\* BelowThreshold with the comparison turned round
BelowThreshold_Reversed(n) == n > MinTradeValueUsd

\* notional_usd < self.config.defaults.min_trade_value_usd
BelowThreshold(n) == n < MinTradeValueUsd

\* process_trade: notional_usd fails and `?` returns the error
CoTradeUnparsed ==
    /\ co_pc = "idle"
    /\ trade_q # << >>
    /\ notional_usd(Head(trade_q)) = ParseErr
    /\ trade_q' = Tail(trade_q)
    /\ co_pc' = "handled"
    /\ log' = [NoLog EXCEPT !.ev = TradeEvent(Head(trade_q)), !.err = "parse"]
    /\ UNCHANGED << subs, event_q, co_seed, co_call, trade_tx,
                    active_feeds, ws, sup, notif >>

\* process_trade: the trade is below the threshold, return Ok
CoTradeSmall ==
    /\ co_pc = "idle"
    /\ trade_q # << >>
    /\ notional_usd(Head(trade_q)) # ParseErr
    /\ BelowThreshold(notional_usd(Head(trade_q)))
    /\ trade_q' = Tail(trade_q)
    /\ co_pc' = "handled"
    /\ log' = [NoLog EXCEPT !.ev = TradeEvent(Head(trade_q))]
    /\ UNCHANGED << subs, event_q, co_seed, co_call, trade_tx,
                    active_feeds, ws, sup, notif >>

\* process_trade gets as far as the subscriber lookup
LargeTrade ==
    /\ co_pc = "idle"
    /\ trade_q # << >>
    /\ notional_usd(Head(trade_q)) # ParseErr
    /\ ~ BelowThreshold(notional_usd(Head(trade_q)))

\* CoTradeDbError that takes the failed lookup for the end of the feed
CoTradeDbError_Forget ==
    /\ LargeTrade
    /\ trade_q' = Tail(trade_q)
    /\ co_pc' = "handled"
    /\ log' = [NoLog EXCEPT !.ev = TradeEvent(Head(trade_q)), !.err = "db"]
    /\ active_feeds' = active_feeds \ {ToUpper(Head(trade_q).coin)}
    /\ UNCHANGED << subs, event_q, co_seed, co_call, trade_tx, ws, sup, notif >>

\* process_trade: get_subscribers_for_coin fails and `?` returns the error
CoTradeDbError ==
    /\ LargeTrade
    /\ trade_q' = Tail(trade_q)
    /\ co_pc' = "handled"
    /\ log' = [NoLog EXCEPT !.ev = TradeEvent(Head(trade_q)), !.err = "db"]
    /\ UNCHANGED << subs, event_q, co_seed, co_call, trade_tx,
                    active_feeds, ws, sup, notif >>

\* StopTradeFeed looking the handle up (get) and leaving its entry in place
StopTradeFeed_Keep(coin) ==
    IF ws[ToUpper(coin)] # 0
    THEN /\ ws' = ws
         /\ sup' = Shutdown(sup, ws[ToUpper(coin)])
    ELSE UNCHANGED << ws, sup >>

\* stop_trade_feed under the write lock: remove the entry and signal it
StopTradeFeed(coin) ==
    IF ws[ToUpper(coin)] # 0
    THEN /\ ws' = [ws EXCEPT ![ToUpper(coin)] = 0]
         /\ sup' = Shutdown(sup, ws[ToUpper(coin)])
    ELSE UNCHANGED << ws, sup >>

\* process_trade: no subscribers, stop the feed
CoTradeNoSubscribers ==
    /\ LargeTrade
    /\ Subscribers(Head(trade_q).coin) = {}
    /\ trade_q' = Tail(trade_q)
    /\ StopTradeFeed(Head(trade_q).coin)
    /\ IF ws[ToUpper(Head(trade_q).coin)] # 0
       THEN /\ active_feeds' = active_feeds \ {ToUpper(Head(trade_q).coin)}
            /\ log' = [NoLog EXCEPT !.ev = TradeEvent(Head(trade_q)),
                                    !.stops = 1]
       ELSE /\ active_feeds' = active_feeds
            /\ log' = [NoLog EXCEPT !.ev = TradeEvent(Head(trade_q)),
                                    !.stops = 1, !.err = "stop"]
    /\ co_pc' = "handled"
    /\ UNCHANGED << subs, event_q, co_seed, co_call, trade_tx, notif >>

RECURSIVE SetToSeq(_)
SetToSeq(S) ==
    IF S = {} THEN << >>
    ELSE LET x == CHOOSE y \in S : \A z \in S : y <= z
         IN  << x >> \o SetToSeq(S \ {x})

\* Dispatches leaving the loop after the first row
Dispatches_FirstOnly(rows) == IF rows = {} THEN << >> ELSE << SetToSeq(rows)[1] >>

\* `for subscriber in subscribers { tokio::spawn(..) }`: the chats of the
\* notification tasks spawned, in the order of the rows
Dispatches(rows) == SetToSeq(rows)

Range(f) == { f[i] : i \in DOMAIN f }

\* process_trade: one spawned send_trade_notification per subscriber
CoTradeNotify ==
    /\ LargeTrade
    /\ Subscribers(Head(trade_q).coin) # {}
    /\ trade_q' = Tail(trade_q)
    /\ co_pc' = "handled"
    /\ log' = [NoLog EXCEPT !.ev = TradeEvent(Head(trade_q)),
                            !.found = Subscribers(Head(trade_q).coin),
                            !.notified = Dispatches(Subscribers(Head(trade_q).coin))]
    /\ notif' = notif \cup Range(log'.notified)
    /\ UNCHANGED << subs, event_q, co_seed, co_call, trade_tx,
                    active_feeds, ws, sup >>

\* a notification task of chat u ends, its message delivered; `last` says
\* whether it was the only one in flight for that chat
NotifyDelivered(u, last) ==
    /\ u \in notif
    /\ notif' = IF last THEN notif \ {u} ELSE notif
    /\ UNCHANGED << subs, event_q, trade_q, co_pc, co_seed, co_call, trade_tx,
                    active_feeds, ws, sup, log >>

\* a notification task of chat u ends, its delivery failed: error!() only
NotifyFailed(u, last) ==
    /\ u \in notif
    /\ notif' = IF last THEN notif \ {u} ELSE notif
    /\ UNCHANGED << subs, event_q, trade_q, co_pc, co_seed, co_call, trade_tx,
                    active_feeds, ws, sup, log >>

(***************************************************************************)
(* Command interface (handle_command).                                     *)
(***************************************************************************)
\* event_sender.send: fails once the Coordinator has dropped event_rx
SendEvent(coin) ==
    IF co_pc = "failed"
    THEN event_q' = event_q
    ELSE /\ Len(event_q) < MaxEvents
         /\ event_q' = Append(event_q, coin)

\* add_subscription stores a new row, the reply is sent, then the event
TgSubscribed(u, coin) ==
    /\ << u, coin >> \notin subs
    /\ subs' = subs \cup {<< u, coin >>}
    /\ SendEvent(coin)
    /\ UNCHANGED << trade_q, co_pc, co_seed, co_call, trade_tx, active_feeds,
                    ws, sup, notif, log >>

\* add_subscription stores a new row and the reply fails: `?` returns
TgSubscribedNoReply(u, coin) ==
    /\ coin \in Coins
    /\ << u, coin >> \notin subs
    /\ subs' = subs \cup {<< u, coin >>}
    /\ UNCHANGED << event_q, trade_q, co_pc, co_seed, co_call, trade_tx,
                    active_feeds, ws, sup, notif, log >>

\* Command::Start: auto-subscribe to BTC
TgStart(u) == TgSubscribed(u, "BTC")

\* Command::Subscribe with a coin that coin_exists accepts
TgSubscribe(u, arg) ==
    /\ Trim(arg) # ""
    /\ ToUpper(Trim(arg)) \in Coins
    /\ TgSubscribed(u, ToUpper(Trim(arg)))

\* TgUnsubscribe that tears the feed's bookkeeping down at once
TgUnsubscribe_Eager(u, arg) ==
    /\ Trim(arg) # ""
    /\ << u, ToUpper(Trim(arg)) >> \in subs
    /\ subs' = subs \ {<< u, ToUpper(Trim(arg)) >>}
    /\ active_feeds' = active_feeds \ {ToUpper(Trim(arg))}
    /\ UNCHANGED << event_q, trade_q, co_pc, co_seed, co_call, trade_tx,
                    ws, sup, notif, log >>

\* Command::Unsubscribe
TgUnsubscribe(u, arg) ==
    /\ Trim(arg) # ""
    /\ << u, ToUpper(Trim(arg)) >> \in subs
    /\ subs' = subs \ {<< u, ToUpper(Trim(arg)) >>}
    /\ UNCHANGED << event_q, trade_q, co_pc, co_seed, co_call, trade_tx,
                    active_feeds, ws, sup, notif, log >>

(***************************************************************************)
(* The system.  Every specification below runs the same program; they      *)
(* differ in what the environment does: which users send commands for      *)
(* which coins, which trades the exchange reports, whether the transport   *)
(* fails, and which values the random source returns.                      *)
(***************************************************************************)
InitWith(rows) ==
    /\ subs \in rows
    /\ event_q = << >>
    /\ trade_q = << >>
    /\ co_pc = "boot"
    /\ co_seed = << >>
    /\ co_call = NoCall
    /\ trade_tx = FALSE
    /\ active_feeds = {}
    /\ ws = [c \in Coins |-> 0]
    /\ sup = [i \in SupIds |-> NoSup]
    /\ notif = {}
    /\ log = NoLog

\* a supervisor whose transport never fails
Supervisor(P) ==
    \E s \in SupIds :
        \/ SupLoopTop(s)
        \/ SupConnected(s)
        \/ SupShutdown(s)
        \/ \E data \in DataOf(sup[s].coin, P) : SupText(s, data)
        \/ SupSkip(s)
        \/ SupClosed(s)
        \/ SupCleanup(s)

\* the transport failures, with the random draws K
Faults(K) ==
    \E s \in SupIds, k \in K :
        \/ SupConnectFailed(s, k)
        \/ SupError(s, k)

\* the Coordinator, fed trades that parse and reach the threshold
Coordinator ==
    \/ CoBoot
    \/ CoBootFailed
    \/ CoSeed
    \/ CoListen
    \/ CoInsert
    \/ CoEvent
    \/ CoLoop
    \/ CoTradeDbError
    \/ CoTradeNoSubscribers
    \/ CoTradeNotify

\* the users U sending commands with the arguments A
Telegram(U, A) ==
    \E u \in U :
        \/ TgStart(u)
        \/ \E arg \in A : TgSubscribe(u, arg)
        \/ \E arg \in A : TgSubscribedNoReply(u, ToUpper(Trim(arg)))
        \/ \E arg \in A : TgUnsubscribe(u, arg)

Notifier ==
    \E u \in Users, last \in BOOLEAN :
        \/ NotifyDelivered(u, last)
        \/ NotifyFailed(u, last)

\* the rows persisted by earlier runs of the process
NoRows == {}
BtcRow == {<< 1, "BTC" >>}
BtcRows == {<< 1, "BTC" >>, << 2, "BTC" >>}
BothRows == {<< 1, "BTC" >>, << 1, "ETH" >>}

\* one user, the feed of one coin, every reported trade above the threshold
InitFeeds == InitWith({ NoRows, BtcRow })
NextFeeds ==
    \/ Supervisor(LargeOnly)
    \/ Coordinator
    \/ Telegram({1}, BtcArgs)
    \/ Notifier
Spec == InitFeeds /\ [][NextFeeds]_vars

\* one user, trades below and at the threshold and trades that do not parse
NextTrades ==
    \/ Supervisor(PxSz)
    \/ Coordinator
    \/ CoTradeUnparsed
    \/ CoTradeSmall
    \/ Telegram({1}, BtcArgs)
    \/ Notifier
SpecTrades == InitFeeds /\ [][NextTrades]_vars

\* two users, every reported trade above the threshold
InitNotify == InitWith({ NoRows, BtcRow, BtcRows })
NextNotify ==
    \/ Supervisor(LargeOnly)
    \/ Coordinator
    \/ Telegram(Users, BtcArgs)
    \/ Notifier
SpecNotify == InitNotify /\ [][NextNotify]_vars

\* the Coordinator without trade handlers
Feeder == CoBoot \/ CoBootFailed \/ CoSeed \/ CoListen \/ CoInsert \/ CoEvent \/ CoLoop

\* a supervisor of an exchange that reports no trades
Silent ==
    \E s \in SupIds :
        \/ SupLoopTop(s)
        \/ SupConnected(s)
        \/ SupSkip(s)
        \/ SupClosed(s)
        \/ SupCleanup(s)

\* both coins, a failing transport, the random source returning 0.0
InitRetries == InitWith({ NoRows, BtcRow, BothRows })
NextRetries ==
    \/ Silent
    \/ Faults({0})
    \/ Feeder
    \/ Telegram({1}, CoinArgs)
SpecRetries == InitRetries /\ [][NextRetries]_vars

\* a failing transport, every random draw
NextBackoff ==
    \/ Silent
    \/ Faults(Draws)
    \/ Feeder
    \/ Telegram({1}, BtcArgs)
SpecBackoff == InitFeeds /\ [][NextBackoff]_vars

(***************************************************************************)
(* The end of the process (main returns, the runtime is dropped).          *)
(***************************************************************************)
\* every sender of the subscription-event channel is dropped
EventClosed == event_q # << >> /\ event_q[Len(event_q)] = Eof

\* the live senders of the trade channel: the local trade_tx of start(), the
\* clone in self.trade_tx and the trade_sender moved into each supervisor
TradeSenders ==
    (IF co_pc \in {"seed", "idle", "insert", "handled"} THEN 1 ELSE 0)
    + (IF trade_tx THEN 1 ELSE 0)
    + Cardinality({ s \in SupIds : Alive(s) })

\* select!: `else`, taken when both recv() return None
BothClosed == event_q = << Eof >> /\ trade_q = << >> /\ TradeSenders = 0

\* telegram_bot.start() returns and main returns: the bot and its
\* event_sender are dropped
MainReturns ==
    /\ ~ EventClosed
    /\ event_q' = Append(event_q, Eof)
    /\ UNCHANGED << subs, trade_q, co_pc, co_seed, co_call, trade_tx,
                    active_feeds, ws, sup, notif, log >>

\* the runtime, being dropped, drops the Coordinator task where it waits, and
\* with it trade_rx, event_rx and self
RtDropCoordinator ==
    /\ EventClosed
    /\ co_pc \in {"boot", "seed", "idle", "insert", "handled"}
    /\ co_pc' = "dropped"
    /\ event_q' = << Eof >>
    /\ trade_q' = << >>
    /\ co_seed' = << >>
    /\ co_call' = NoCall
    /\ trade_tx' = FALSE
    /\ log' = NoLog
    /\ UNCHANGED << subs, active_feeds, ws, sup, notif >>

\* the runtime drops a supervisor task where it waits: no cleanup is run
RtDropSupervisor(s) ==
    /\ EventClosed
    /\ Alive(s)
    /\ sup' = [sup EXCEPT ![s] =
                 [pc |-> "exited", coin |-> sup[s].coin, retry_count |-> 0,
                  total_delay |-> 0, chan |-> "closed", why |-> "dropped",
                  close_sent |-> sup[s].close_sent, warned |-> sup[s].warned,
                  skipped |-> FALSE]]
    /\ UNCHANGED << subs, event_q, trade_q, co_pc, co_seed, co_call, trade_tx,
                    active_feeds, ws, notif, log >>

\* one user, the feed of one coin, and the process ending at any time
NextHalt ==
    \/ Supervisor(LargeOnly)
    \/ Coordinator
    \/ (~ EventClosed /\ Telegram({1}, BtcArgs))
    \/ Notifier
    \/ MainReturns
    \/ RtDropCoordinator
    \/ \E s \in SupIds : RtDropSupervisor(s)
SpecHalt == InitFeeds /\ [][NextHalt]_vars

(***************************************************************************)
(* The registry called without the Coordinator's own bookkeeping.          *)
(***************************************************************************)
\* start_websocket_for_coin, and through it start_trade_feed, called for a
\* coin without looking the coin up in active_feeds first
DirectStart(coin) ==
    /\ co_pc = "idle"
    /\ StartWebsocketForCoin(coin, "handled",
           [NoLog EXCEPT !.ev = [kind |-> "start", coin |-> coin]])
    /\ UNCHANGED << subs, event_q, trade_q, co_seed, trade_tx, active_feeds,
                    ws, notif >>

\* one user, the feed of one coin, and direct calls of the registry
NextRegistry ==
    \/ NextFeeds
    \/ DirectStart("BTC")
SpecRegistry == InitFeeds /\ [][NextRegistry]_vars

\* a message of the exchange with two trades of coin c
PairOf(c) ==
    << [coin |-> c, px |-> "60000", sz |-> "1"],
       [coin |-> c, px |-> "60000", sz |-> "2"] >>

\* one user, the feed of one coin, every message carrying two trades
NextOrder ==
    \/ Silent
    \/ \E s \in SupIds : SupShutdown(s)
    \/ \E s \in SupIds : SupText(s, PairOf(sup[s].coin))
    \/ Coordinator
    \/ Telegram({1}, BtcArgs)
    \/ Notifier
SpecOrder == InitFeeds /\ [][NextOrder]_vars

\* a process started with persisted subscriptions to one coin or to both, the
\* user subscribing to the other coin at any time, every reported trade above
\* the threshold
InitSeed == InitWith({ BtcRow, BothRows })
NextSeed ==
    \/ Silent
    \/ \E s \in SupIds : \E data \in DataOf(sup[s].coin, LargeOnly) :
          SupText(s, data)
    \/ Feeder
    \/ CoTradeDbError
    \/ CoTradeNotify
    \/ Notifier
    \/ \E arg \in CoinArgs : TgSubscribe(1, arg)
SpecSeed == InitSeed /\ [][NextSeed]_vars

\* the scheduler runs every task that can take a step: a sleep ends, a
\* connection attempt ends one way or the other, a ready cancellation branch
\* of select! is taken at some turn, the cleanup gets the write lock
SupFair ==
    \A s \in SupIds :
        /\ WF_vars(SupLoopTop(s))
        /\ WF_vars(SupConnected(s) \/ SupConnectFailed(s, 0))
        /\ WF_vars(SupShutdown(s))
        /\ WF_vars(SupCleanup(s))

\* one subscriber of one coin who may leave, a transport that may fail, fair
\* tasks
InitCancel == InitWith({ BtcRow })
NextCancel ==
    \/ Supervisor(LargeOnly)
    \/ Faults({0})
    \/ CoBoot \/ CoBootFailed \/ CoSeed \/ CoListen \/ CoInsert \/ CoLoop
    \/ CoTradeDbError \/ CoTradeNoSubscribers \/ CoTradeNotify
    \/ Notifier
    \/ \E arg \in BtcArgs : TgUnsubscribe(1, arg)
SpecCancel == InitCancel /\ [][NextCancel]_vars /\ SupFair

(***************************************************************************)
(* Properties.                                                             *)
(***************************************************************************)
\* the supervisors of coin c that have been spawned and have not ended
SupervisorsOf(c) == { s \in SupIds : Alive(s) /\ sup[s].coin = c }

\* the users with a row for coin c in user_subscriptions
RowsFor(c) == { u \in Users : << u, c >> \in subs }

\* the step in which the Coordinator takes a trade off the channel and runs
\* process_trade on it
TradeStep ==
    /\ co_pc = "idle"
    /\ trade_q # << >>
    /\ trade_q' = Tail(trade_q)
    /\ co_pc' = "handled"

\* the step in which the Coordinator takes a subscription event off the
\* channel and runs check_coin_subscription on it
EventStep ==
    /\ co_pc = "idle"
    /\ event_q # << >>
    /\ event_q' = Tail(event_q)
    /\ co_pc' # "idle"

Times(x, q) == Cardinality({ i \in DOMAIN q : q[i] = x })

\* C1 (as claimed): at any time at most one supervisor task of a coin is
\* alive, whatever the interleaving of start_trade_feed and stop_trade_feed.
C1_AtMostOneSupervisor ==
    \A c \in Coins : Cardinality(SupervisorsOf(c)) <= 1

C3_SmallNeverNotifies ==
    [][ (TradeStep /\ notional_usd(Head(trade_q)) # ParseErr
           /\ notional_usd(Head(trade_q)) < MinTradeValueUsd)
          => (log'.notified = << >> /\ notif' = notif) ]_vars

\* C3 witness: a trade below the threshold was handled while its coin had a
\* subscriber
C3_SmallHandled ==
    /\ co_pc = "handled"
    /\ log.ev.kind = "trade"
    /\ notional_usd(log.ev.trade) # ParseErr
    /\ notional_usd(log.ev.trade) < MinTradeValueUsd
    /\ RowsFor(ToUpper(log.ev.trade.coin)) # {}
    /\ log.notified = << >>

\* C4: a processed trade at or above the threshold whose lookup finds
\* subscribers spawns exactly one notification task per subscriber and calls no
\* stop_trade_feed, and the handler returns with those tasks in flight; a task
\* that ends, delivered or failed, changes nothing but its own being in
\* flight; and with tasks in flight the Coordinator still takes the next trade.
C4_OneDispatchEach ==
    /\ [][ (TradeStep /\ notional_usd(Head(trade_q)) # ParseErr
              /\ notional_usd(Head(trade_q)) >= MinTradeValueUsd
              /\ log'.err # "db"
              /\ RowsFor(ToUpper(Head(trade_q).coin)) # {})
             => LET rows == RowsFor(ToUpper(Head(trade_q).coin)) IN
                /\ \A u \in Users :
                      Times(u, log'.notified) = IF u \in rows THEN 1 ELSE 0
                /\ notif' = notif \cup rows
                /\ log'.stops = 0
                /\ ws' = ws /\ sup' = sup /\ active_feeds' = active_feeds ]_vars
    /\ [][ (notif' # notif /\ notif' \subseteq notif)
             => /\ Cardinality(notif \ notif') = 1
                /\ UNCHANGED << subs, event_q, trade_q, co_pc, co_seed, co_call,
                                trade_tx, active_feeds, ws, sup, log >> ]_vars
    /\ [](  (co_pc = "idle" /\ trade_q # << >> /\ notif # {})
             => ENABLED (CoTradeNoSubscribers \/ CoTradeNotify) )

\* C4 witness: the handler of a trade has returned with the notification
\* tasks of two subscribers in flight
C4_TwoDispatched ==
    /\ co_pc = "handled"
    /\ log.ev.kind = "trade"
    /\ Len(log.notified) = 2
    /\ notif = Users

\* C5: handling a subscription event for a coin that the Coordinator does not
\* count as fed calls start_trade_feed once, and that call spawns one
\* supervisor for the coin; handling one for a coin it counts as fed calls
\* nothing, spawns nothing and leaves the registry and active_feeds as they
\* are.  A coin for which no supervisor was ever spawned is not counted as
\* fed, and a coin whose registered supervisor is alive is.
C5_EnsureOnce ==
    /\ [][ EventStep =>
             LET c == ToUpper(Head(event_q)) IN
             /\ (ws[c] = 0 /\ \A s \in SupIds : sup[s].coin # c)
                  => (log'.starts = 1 /\ log'.spawns = 1
                        /\ Cardinality({ s \in SupIds :
                               /\ sup'[s].pc \notin {"none", "exited"}
                               /\ sup'[s].coin = c }) = 1)
             /\ (ws[c] # 0 /\ Alive(ws[c]))
                  => (log'.starts = 0 /\ log'.spawns = 0
                        /\ UNCHANGED << ws, active_feeds, sup >>) ]_vars
    /\ [][ EventStep =>
             LET c == ToUpper(Head(event_q)) IN
             IF c \in active_feeds
             THEN /\ log'.starts = 0 /\ log'.spawns = 0
                  /\ co_pc' = "handled"
                  /\ UNCHANGED << ws, active_feeds, sup >>
             ELSE /\ log'.starts = 1 /\ log'.spawns = 1
                  /\ co_pc' = "insert"
                  /\ \E s \in SupIds :
                        /\ sup[s].pc = "none"
                        /\ sup'[s].pc = "top" /\ sup'[s].coin = c
                        /\ sup'[s].retry_count = 0
                        /\ \A o \in SupIds \ {s} : sup'[o] = sup[o] ]_vars
    /\ [][ (co_pc = "insert" /\ co_pc' = "handled")
             => /\ log' = log
                /\ ws'[co_call.coin] = co_call.id
                /\ active_feeds' = active_feeds \cup {co_call.coin}
                /\ UNCHANGED << sup, event_q >> ]_vars

\* C5 witness: a second event for a coin was handled as a no-op while the
\* feed started by the first was in the registry, its supervisor alive
C5_SecondIsNoOp ==
    /\ co_pc = "handled"
    /\ log.ev.kind = "subscribed"
    /\ log.starts = 0
    /\ ws[ToUpper(log.ev.coin)] # 0
    /\ Alive(ws[ToUpper(log.ev.coin)])

\* C6 (as claimed): once the supervisor of a coin has ended by itself with
\* its retries exhausted, the next subscription event handled for that coin
\* spawns a new supervisor.
C6_RestartAfterExhausted ==
    [][ (EventStep
           /\ SupervisorsOf(ToUpper(Head(event_q))) = {}
           /\ ws[ToUpper(Head(event_q))] = 0
           /\ \E s \in SupIds : /\ sup[s].coin = ToUpper(Head(event_q))
                                /\ sup[s].pc = "exited"
                                /\ sup[s].why = "exhausted")
          => (log'.spawns = 1 /\ co_pc' = "insert") ]_vars

\* C7 (as claimed): when a connection that was being read ends, by a close
\* from the server, by the end of the stream or by a transport error, with no
\* cancellation signalled and the retry limit not reached, the supervisor
\* sleeps for a backoff and connects again.
C7_RetryUnlessCancelled ==
    [][ \A s \in SupIds :
          (sup[s].pc = "reading" /\ sup'[s].pc # "reading"
             /\ sup[s].chan = "open" /\ sup'[s].chan = "open"
             /\ sup[s].retry_count + 1 < MAX_RETRIES)
            => sup'[s].pc = "sleeping" ]_vars

\* C8: a supervisor counts at most MAX_RETRIES failures; the count starts at 0
\* when start_trade_feed spawns the task, a successful connection leaves it
\* as it is and no step of the living task lowers it; at MAX_RETRIES the task
\* leaves its loop, makes no further attempt and removes its coin's registry
\* entry.
C8_RetryLimit ==
    /\ [](\A s \in SupIds :
            /\ sup[s].retry_count <= MAX_RETRIES
            /\ sup[s].retry_count = MAX_RETRIES
                 => (sup[s].pc = "cleanup" /\ sup[s].why = "exhausted"))
    /\ [][ \A s \in SupIds :
             /\ (sup[s].pc = "none" /\ sup'[s].pc # "none")
                  => (sup'[s].pc = "top" /\ sup'[s].retry_count = 0)
             /\ (Alive(s) /\ sup'[s].pc # "exited")
                  => sup'[s].retry_count \in
                        {sup[s].retry_count, sup[s].retry_count + 1}
             /\ (sup[s].pc = "connecting" /\ sup'[s].pc = "reading")
                  => sup'[s].retry_count = sup[s].retry_count
             /\ sup[s].pc = "cleanup" => sup'[s].pc \in {"cleanup", "exited"}
             /\ sup[s].pc = "exited" => sup'[s].pc = "exited"
             /\ (sup[s].pc = "cleanup" /\ sup'[s].pc = "exited")
                  => ws'[sup[s].coin] = 0 ]_vars

\* C8 witness: a supervisor has ended with its retries exhausted and its
\* coin is out of the registry
C8_Exhausted ==
    \E s \in SupIds :
        /\ sup[s].pc = "exited"
        /\ sup[s].why = "exhausted"
        /\ ws[sup[s].coin] = 0

\* C9: each delay a supervisor sleeps, jitter included, is at least the delay
\* it slept before and at most MAX_DELAY, and lies between the raw delay
\* min(BASE_DELAY * 2^(n-1), MAX_DELAY) and that plus a tenth, n being the
\* number of the attempt the sleep precedes (n = 2 after the first failure).
C9_Backoff ==
    [][ \A s \in SupIds :
          (sup'[s].pc = "sleeping" /\ sup[s].pc # "sleeping")
            => LET n == sup'[s].retry_count + 1
                   raw == Min(BASE_DELAY * Pow2(n - 1), MAX_DELAY)
               IN  /\ n >= 2
                   /\ sup'[s].total_delay >= sup[s].total_delay
                   /\ sup'[s].total_delay <= MAX_DELAY
                   /\ raw <= sup'[s].total_delay
                   /\ 10 * sup'[s].total_delay <= 11 * raw ]_vars

\* C9 witness: a supervisor sleeps its fourth delay, with the largest jitter
C9_FourthSleep ==
    \E s \in SupIds :
        /\ sup[s].pc = "sleeping"
        /\ sup[s].retry_count = MAX_RETRIES - 1
        /\ sup[s].total_delay = 17599

\* C10: the delay slept between the first attempt, failed, and the second is
\* within [BASE_DELAY * 2 * 0.9, BASE_DELAY * 2 * 1.1] for every random draw.
C10_SecondAttemptWait ==
    \A s \in SupIds :
        (sup[s].pc = "sleeping" /\ sup[s].retry_count = 1)
          => /\ 10 * sup[s].total_delay >= 18 * BASE_DELAY
             /\ 10 * sup[s].total_delay <= 22 * BASE_DELAY

\* C10 witness: a supervisor sleeps after its first failure, jitter drawn
C10_FirstSleep ==
    \E s \in SupIds :
        /\ sup[s].pc = "sleeping"
        /\ sup[s].retry_count = 1
        /\ sup[s].total_delay > 2 * BASE_DELAY

\* C11: a supervisor whose cancellation has been signalled eventually ends;
\* from the signal on it starts no connection attempt, also when the signal
\* comes during the sleep of a backoff; and when it leaves an open session
\* because of the signal it has sent a close frame.
C11_CancelledExits ==
    /\ \A s \in SupIds :
          (sup[s].chan = "signalled") ~> (sup[s].pc = "exited")
    /\ [][ \A s \in SupIds :
             /\ (sup[s].chan = "signalled" /\ sup[s].pc # "connecting")
                  => sup'[s].pc # "connecting"
             /\ (sup[s].chan = "signalled" /\ sup[s].pc \in {"top", "sleeping"}
                   /\ sup'[s].pc # sup[s].pc)
                  => (sup'[s].pc = "cleanup" /\ sup'[s].why = "shutdown")
             /\ (sup[s].pc = "reading" /\ sup'[s].pc = "cleanup"
                   /\ sup'[s].why = "shutdown")
                  => sup'[s].close_sent ]_vars

\* C11 witness: a supervisor signalled during the sleep of a backoff has left
\* its loop without another attempt
C11_CancelledAsleep ==
    \E s \in SupIds :
        /\ sup[s].pc \in {"cleanup", "exited"}
        /\ sup[s].why = "shutdown"
        /\ ~ sup[s].close_sent
        /\ sup[s].retry_count > 0

\* C12 (as claimed): a connection whose cancellation has been signalled
\* forwards no further trade: while it is the only connection being read and
\* its signal is waiting, no trade is added to the trade channel.
C12_CancelWins ==
    [][ \A s \in SupIds :
          (sup[s].pc = "reading" /\ sup[s].chan = "signalled"
             /\ \A o \in SupIds \ {s} : sup[o].pc # "reading")
            => Len(trade_q') <= Len(trade_q) ]_vars

\* C13 (as claimed): a connection that has failed to forward a trade because
\* the Coordinator's receiver is gone reads no further message.
C13_ClosesWhenConsumerGone ==
    \A s \in SupIds : sup[s].warned => sup[s].pc # "reading"

\* C16 (as claimed): when all external producers are gone (every sender of
\* the subscription-event channel dropped, no supervisor left) and nothing is
\* buffered, both sources of the Coordinator's loop are closed, so that its
\* select! takes `else` and start returns Ok.
C16_BothClosedWhenProducersGone ==
    ( /\ co_pc = "idle"
      /\ event_q = << Eof >>
      /\ trade_q = << >>
      /\ \A s \in SupIds : ~ Alive(s) )
      => BothClosed

\* C14: a stop_trade_feed call for a coin with a registry entry removes that
\* entry, leaves the signal in the shutdown channel of the entry's supervisor
\* (unless that task has already ended), touches no other supervisor and
\* returns Ok, after which the coin leaves active_feeds; a call for a coin
\* with no entry returns an error, leaves the registry, the supervisors and
\* active_feeds as they are, and the Coordinator goes on with its loop.
C14_StopTradeFeed ==
    /\ [][ (TradeStep /\ log'.stops = 1) =>
             LET c == ToUpper(Head(trade_q).coin) IN
             IF ws[c] # 0
             THEN /\ ws' = [ws EXCEPT ![c] = 0]
                  /\ sup[ws[c]].pc # "exited" => sup'[ws[c]].chan = "signalled"
                  /\ \A o \in SupIds \ {ws[c]} : sup'[o] = sup[o]
                  /\ log'.err = "-"
                  /\ active_feeds' = active_feeds \ {c}
             ELSE /\ log'.err = "stop"
                  /\ UNCHANGED << ws, sup, active_feeds >> ]_vars
    /\ [][ (co_pc = "handled" /\ log.err = "stop")
             => co_pc' \in {"handled", "idle"} ]_vars
    /\ []( (co_pc = "handled" /\ log.err = "stop") => ENABLED CoLoop )

\* C14 witness: stop_trade_feed has returned its error for a coin with no
\* entry and the Coordinator is back in its loop
C14_StopOnAbsent ==
    /\ co_pc = "handled"
    /\ log.ev.kind = "trade"
    /\ log.stops = 1
    /\ log.err = "stop"
    /\ ws[ToUpper(log.ev.trade.coin)] = 0

\* C15 (as claimed): a start_trade_feed call for a coin that has a registry
\* entry spawns no supervisor, leaves the registry as it is and returns Ok.
C15_DuplicateStartOk ==
    [][ ( /\ co_pc = "idle"
          /\ log'.ev.kind \in {"start", "subscribed"}
          /\ log'.starts = 1
          /\ ws[ToUpper(log'.ev.coin)] # 0 )
          => /\ log'.spawns = 0
             /\ UNCHANGED << ws, sup >>
             /\ log'.err = "-" ]_vars

\* C17: a processed trade whose subscriber lookup fails spawns no
\* notification and calls no stop_trade_feed, leaves the registry, the
\* supervisors and active_feeds as they are, and the Coordinator goes on with
\* its loop.
C17_LookupFailure ==
    /\ [][ (TradeStep /\ log'.err = "db")
             => /\ log'.notified = << >>
                /\ notif' = notif
                /\ log'.stops = 0
                /\ log'.starts = 0
                /\ UNCHANGED << ws, sup, active_feeds, subs, event_q >> ]_vars
    /\ [][ (co_pc = "handled" /\ log.err = "db")
             => co_pc' \in {"handled", "idle"} ]_vars
    /\ []( (co_pc = "handled" /\ log.err = "db") => ENABLED CoLoop )

\* C17 witness: the lookup failed for a trade of a coin that has a
\* subscriber and a feed
C17_LookupFailed ==
    /\ co_pc = "handled"
    /\ log.ev.kind = "trade"
    /\ log.err = "db"
    /\ RowsFor(ToUpper(log.ev.trade.coin)) # {}
    /\ ws[ToUpper(log.ev.trade.coin)] # 0
    /\ notif = {}

\* C18: a step that removes a subscription row, the last one of a coin
\* included, sends no event and changes neither the registry, nor
\* active_feeds, nor any supervisor; a supervisor is signalled only by the
\* processing of a trade at or above the threshold whose coin has no
\* subscriber, and that step removes the coin's entry and spawns no
\* notification.
C18_LazyTeardown ==
    /\ [][ (subs' # subs /\ subs' \subseteq subs)
             => UNCHANGED << event_q, trade_q, co_pc, co_seed, co_call,
                             trade_tx, active_feeds, ws, sup, notif, log >> ]_vars
    /\ [][ \A s \in SupIds :
             (sup'[s].chan = "signalled" /\ sup[s].chan # "signalled")
               => /\ TradeStep
                  /\ notional_usd(Head(trade_q)) # ParseErr
                  /\ notional_usd(Head(trade_q)) >= MinTradeValueUsd
                  /\ RowsFor(ToUpper(Head(trade_q).coin)) = {}
                  /\ ws[ToUpper(Head(trade_q).coin)] = s
                  /\ ws'[ToUpper(Head(trade_q).coin)] = 0
                  /\ ToUpper(Head(trade_q).coin) \notin active_feeds'
                  /\ log'.notified = << >>
                  /\ notif' = notif ]_vars

\* C18 witness: the last subscriber of a coin has gone, a trade below the
\* threshold has been processed since, and the feed is still open
C18_StillOpen ==
    /\ co_pc = "handled"
    /\ log.ev.kind = "trade"
    /\ notional_usd(log.ev.trade) # ParseErr
    /\ notional_usd(log.ev.trade) < MinTradeValueUsd
    /\ RowsFor(ToUpper(log.ev.trade.coin)) = {}
    /\ ToUpper(log.ev.trade.coin) \in active_feeds
    /\ ws[ToUpper(log.ev.trade.coin)] # 0
    /\ sup[ws[ToUpper(log.ev.trade.coin)]].pc = "reading"
    /\ sup[ws[ToUpper(log.ev.trade.coin)]].chan = "open"

\* C19: the trade channel is changed only by a connection appending the
\* trades of the message it has read, in the order of the message, and by the
\* Coordinator taking the trade at its head, which is the one it processes:
\* the trades of a connection are processed in the order it received them.
C19_InOrder ==
    /\ [][ TradeStep => log'.ev = TradeEvent(Head(trade_q)) ]_vars
    /\ [][ trade_q' # trade_q
             => \/ TradeStep
                \/ \E s \in SupIds :
                      /\ sup[s].pc = "reading"
                      /\ trade_q' = trade_q \o PairOf(sup[s].coin) ]_vars
    /\ [][ (co_pc = "handled" /\ log.ev.kind = "trade" /\ log' # log)
             => co_pc' = "idle" ]_vars

\* C19 witness: the first trade of a message has been processed and the
\* second is the next in the channel
C19_FirstThenSecond ==
    /\ co_pc = "handled"
    /\ log.ev.kind = "trade"
    /\ log.ev.trade = PairOf("BTC")[1]
    /\ trade_q # << >>
    /\ Head(trade_q) = PairOf("BTC")[2]

C21_EntryMeansSupervisor ==
    \A c \in Coins :
        ws[c] # 0 => (Alive(ws[c]) /\ sup[ws[c]].coin = c)

\* C22: a text that does not parse forwards no trade, leaves the connection
\* reading with its retry counter, its delay and its shutdown channel as
\* they were, and changes nothing else; the connection can forward the trades
\* of the next message.
C22_SkipUnparsed ==
    /\ [][ \A s \in SupIds :
             (sup'[s].skipped /\ ~ sup[s].skipped)
               => /\ sup[s].pc = "reading"
                  /\ sup'[s] = [sup[s] EXCEPT !.skipped = TRUE]
                  /\ \A o \in SupIds \ {s} : sup'[o] = sup[o]
                  /\ UNCHANGED << subs, event_q, trade_q, co_pc, co_seed,
                                  co_call, trade_tx, active_feeds, ws, notif,
                                  log >> ]_vars
    /\ []( \A s \in SupIds :
             (sup[s].skipped /\ co_pc = "idle" /\ trade_q = << >>)
               => ENABLED SupText(s, << [coin |-> sup[s].coin, px |-> "60000",
                                        sz |-> "1"] >>) )

\* C22 witness: a connection opened after a failure has skipped a text and
\* is still reading, its counter at 1
C22_Skipped ==
    \E s \in SupIds :
        /\ sup[s].skipped
        /\ sup[s].pc = "reading"
        /\ sup[s].retry_count = 1

\* C23 (as claimed): no failure of the store stops the Coordinator, the failure
\* of the load of the subscribed coins at startup included: start() never
\* returns with the error, it goes on to its loop.
C23_StoreFailureNeverStops ==
    co_pc # "failed"

\* C24 (as claimed): the command interface sends the subscription event of a
\* coin exactly when a command has stored a new row for it: every step that
\* stores a row puts the coin's event on the channel (the Coordinator's
\* receiver being there), and no event is put there by a step that stores
\* no row.
C24_EventIffNewRow ==
    [][ /\ \A u \in Users, c \in Coins :
             (<< u, c >> \in subs' /\ << u, c >> \notin subs
                /\ co_pc # "failed")
               => event_q' = Append(event_q, c)
        /\ Len(event_q') > Len(event_q)
             => \E u \in Users :
                    /\ << u, event_q'[Len(event_q')] >> \in subs'
                    /\ << u, event_q'[Len(event_q')] >> \notin subs ]_vars

\* C25 (as claimed): the exit of a supervisor removes only the registry entry
\* made for that supervisor: when the entry of its coin belongs to a newer
\* supervisor, the exit leaves that entry in place and the newer
\* supervisor's shutdown channel open.
C25_ExitRemovesOwnEntry ==
    [][ \A s \in SupIds :
          (sup[s].pc = "cleanup" /\ sup'[s].pc = "exited")
            => \A c \in Coins :
                 (ws[c] # 0 /\ ws[c] # s)
                   => /\ ws'[c] = ws[c]
                      /\ sup'[ws[c]].chan = sup[ws[c]].chan ]_vars

\* C26 (as claimed): whenever the Coordinator waits in its select, the feeds
\* it has marked active are the coins that have an entry in the registry.
C26_FeedsAgreeWhenIdle ==
    co_pc = "idle" => active_feeds = {c \in Coins : ws[c] # 0}

\* C27: no call of stop_trade_feed waits for room in the shutdown channel
\* while it holds the registry's write lock, so its caller always gets to
\* return; a supervisor in its cleanup can always take the write lock, and
\* every supervisor that reaches its cleanup ends.
C27_StopAndExitComplete ==
    /\ [](~ Parked)
    /\ [](co_pc = "handled" => ENABLED CoLoop)
    /\ [](\A s \in SupIds : sup[s].pc = "cleanup" => ENABLED SupCleanup(s))
    /\ \A s \in SupIds : (sup[s].pc = "cleanup") ~> (sup[s].pc = "exited")

\* C27 witness: stop_trade_feed has removed and signalled the entry of a
\* supervisor that left its loop by itself, both have completed
C27_StoppedWhileExiting ==
    /\ co_pc = "handled"
    /\ log.stops = 1
    /\ log.err = "-"
    /\ \E s \in SupIds :
           /\ sup[s].pc = "exited"
           /\ sup[s].why \in {"ended", "exhausted"}

=============================================================================
